---- MODULE Spec2Model ----
(***************************************************************************)
(* Model of the multi-level write-back cache of cache.py: a chain of       *)
(* Cache layers (layer 1 is the top) over an optional BackingStore.        *)
(* A cache layer is a sequence of entries, oldest (LRU) first, as the      *)
(* OrderedDict of the source keeps them.  The shelve file of the store is  *)
(* the function db; it outlives close().                                   *)
(***************************************************************************)
EXTENDS Integers, Sequences, FiniteSets, TLC

VARIABLES cache, capacity, modify_key, has_bstore, db, bs_open, bs_capacity,
          nondirty_map, last, nops, stored, in_with, lower_mem, upper_mem

\* in_with: the caller is inside a "with cache:" block
vars == <<cache, capacity, modify_key, has_bstore, db, bs_open, bs_capacity,
          nondirty_map, last, nops, stored, in_with, lower_mem, upper_mem>>

\* ------------------------------------------------------------------ bounds
MaxOps == 2
MaxTopOps == 4
MaxCap == 2
MaxLookups == 3
MaxCaches == 3
MaxNotifyOps == 5

Keys == {"a", "b", "c"}
Vals == {1, 2}
\* the values written by the operations of Spec (construction writes 1)
NewVals == {2}
NoKey == "-"
NoVal == 0
NumCaches == 2
Layers == 1..NumCaches
\* references to the objects of a chain: the caches are numbered from 1,
\* NoMem is None and Bs is the BackingStore
NoMem == 0
Bs == -1

\* ------------------------------------------------------- plain containers
EmptyMap == [x \in {} |-> NoVal]

MapPut(f, k, v) == [x \in (DOMAIN f) \cup {k} |-> IF x = k THEN v ELSE f[x]]

MapDel(f, k) == [x \in (DOMAIN f) \ {k} |-> f[x]]

MapUpdate(f, g) == [x \in (DOMAIN f) \cup (DOMAIN g) |->
                      IF x \in DOMAIN g THEN g[x] ELSE f[x]]

Val(dirty, val, key) == [k |-> key, v |-> val, d |-> dirty]

KeysOf(od) == {od[n].k : n \in 1..Len(od)}

EntryOf(od, key) == od[CHOOSE n \in 1..Len(od) : od[n].k = key]

OdPop(od, key) == SelectSeq(od, LAMBDA e : e.k # key)

\* OrderedDict.__setitem__: an existing key keeps its position.
OdSet(od, e) ==
    IF e.k \in KeysOf(od)
    THEN [n \in 1..Len(od) |-> IF od[n].k = e.k THEN e ELSE od[n]]
    ELSE Append(od, e)

\* mutant: the keys of items leave their places and go to the end
OdUpdateAtEnd(od, items) ==
    SelectSeq(od, LAMBDA e : e.k \notin KeysOf(items)) \o items

RECURSIVE OdUpdate(_, _)
OdUpdate(od, items) ==
    IF items = <<>> THEN od
    ELSE OdUpdate(OdSet(od, Head(items)), Tail(items))

\* ---------------------------------------------------- the chain as a value
Mem == [cache |-> cache, capacity |-> capacity, modify_key |-> modify_key,
        has_bstore |-> has_bstore, db |-> db, bs_open |-> bs_open,
        bs_capacity |-> bs_capacity, nondirty_map |-> nondirty_map]

Ok(m) == [m |-> m, err |-> "none"]

Raise(m, e) == [m |-> m, err |-> e]

SetCache(m, i, od) == [m EXCEPT !.cache[i] = od]

\* --------------------------------------------------------- BackingStore
\* mutant: only the cache next to the store is notified
NotifyNearestCacheFor(m, key) ==
    [m EXCEPT !.modify_key[NumCaches] = key]

\* the while loop of _notify_modify_dirty_above_for, from layer mem upwards
RECURSIVE NotifyFrom(_, _, _)
NotifyFrom(m, mem, key) ==
    IF mem = NoMem THEN m
    ELSE NotifyFrom([m EXCEPT !.modify_key[mem] = key], upper_mem[mem], key)

\* _notify_modify_dirty_above_for: every cache that the back-references
\* lead to from the store gets the key.
NotifyModifyDirtyAboveFor(m, key) == NotifyFrom(m, upper_mem[Bs], key)

\* mutant: popitem takes any key and never looks at the nondirty map
BsPopItemAny(m) ==
    IF ~m.bs_open THEN {Raise(m, "BStoreClosedError")}
    ELSE IF DOMAIN m.db = {} THEN {Raise(m, "KeyError")}
    ELSE {Ok([m EXCEPT !.db = MapDel(m.db, k)]) : k \in DOMAIN m.db}

\* mutant: the caches above are notified of every eviction
BsPopItemAlwaysNotifies(m) ==
    IF ~m.bs_open THEN {Raise(m, "BStoreClosedError")}
    ELSE LET cands == (DOMAIN m.db) \ (DOMAIN m.nondirty_map) IN
         IF DOMAIN m.db = {} THEN {Raise(m, "KeyError")}
         ELSE {Ok(NotifyModifyDirtyAboveFor(
                     [m EXCEPT !.db = MapDel(m.db, k)], k)) :
                  k \in IF cands # {} THEN cands ELSE DOMAIN m.db}

\* BackingStore.popitem: the set of possible outcomes (dbm order is arbitrary).
BsPopItem(m) ==
    IF ~m.bs_open THEN {Raise(m, "BStoreClosedError")}
    ELSE LET cands == (DOMAIN m.db) \ (DOMAIN m.nondirty_map) IN
         IF cands # {}
         THEN {Ok([m EXCEPT !.db = MapDel(m.db, k)]) : k \in cands}
         ELSE IF DOMAIN m.db = {}
              THEN {Raise(m, "KeyError")}
              ELSE {Ok(NotifyModifyDirtyAboveFor(
                          [m EXCEPT !.db = MapDel(m.db, k)], k)) :
                       k \in DOMAIN m.db}

\* mutant: no check that the store is open, no eviction
BsSetItemUnchecked(m, key, val) ==
    {Ok([m EXCEPT !.db = MapPut(m.db, key, val)])}

\* mutant: the store evicts until one more entry than the new one fits
RECURSIVE BsSetItemLeavesRoom(_, _, _)
BsSetItemLeavesRoom(m, key, val) ==
    IF ~m.bs_open THEN {Raise(m, "BStoreClosedError")}
    ELSE IF Cardinality(DOMAIN m.db) + 1 >= m.bs_capacity /\ DOMAIN m.db # {}
         THEN UNION {IF o.err # "none" THEN {o}
                     ELSE BsSetItemLeavesRoom(o.m, key, val) :
                        o \in BsPopItem(m)}
         ELSE {Ok([m EXCEPT !.db = MapPut(m.db, key, val)])}

\* BackingStore.__setitem__
RECURSIVE BsSetItem(_, _, _)
BsSetItem(m, key, val) ==
    IF ~m.bs_open THEN {Raise(m, "BStoreClosedError")}
    ELSE IF Cardinality(DOMAIN m.db) >= m.bs_capacity
         THEN UNION {IF o.err # "none" THEN {o} ELSE BsSetItem(o.m, key, val) :
                        o \in BsPopItem(m)}
         ELSE {Ok([m EXCEPT !.db = MapPut(m.db, key, val)])}

\* mutant: the trim loop runs while len >= capacity and leaves one entry less
TrimBelowCapacity(m) ==
    IF ~m.bs_open \/ Cardinality(DOMAIN m.db) < m.bs_capacity
       \/ m.bs_capacity = 0 THEN {m}
    ELSE {[m EXCEPT !.db = [x \in S |-> m.db[x]]] :
             S \in {T \in SUBSET (DOMAIN m.db) :
                      Cardinality(T) = m.bs_capacity - 1}}

\* BackingStore._trim_to_capacity: raw popitem() of the shelf, no notification.
TrimToCapacity(m) ==
    IF ~m.bs_open \/ Cardinality(DOMAIN m.db) <= m.bs_capacity THEN {m}
    ELSE {[m EXCEPT !.db = [x \in S |-> m.db[x]]] :
             S \in {T \in SUBSET (DOMAIN m.db) : Cardinality(T) = m.bs_capacity}}

\* ------------------------------------------------------------------ Cache
\* mutant: the probe reads the entry of a cache layer without removing it
RECURSIVE RecursPopNoRemove(_, _, _)
RecursPopNoRemove(m, i, key) ==
    IF key \in KeysOf(m.cache[i])
    THEN [m |-> m, err |-> "none",
          val |-> EntryOf(m.cache[i], key).v, from_bstore |-> FALSE, src |-> i]
    ELSE IF i < NumCaches THEN RecursPopNoRemove(m, i + 1, key)
    ELSE IF ~m.has_bstore
         THEN [m |-> m, err |-> "CacheMiss", val |-> NoVal,
               from_bstore |-> FALSE, src |-> 0]
    ELSE IF ~m.bs_open
         THEN [m |-> m, err |-> "BStoreClosedError", val |-> NoVal,
               from_bstore |-> FALSE, src |-> 0]
    ELSE IF key \in DOMAIN m.db
         THEN [m |-> m, err |-> "none", val |-> m.db[key],
               from_bstore |-> TRUE, src |-> NumCaches + 1]
    ELSE [m |-> m, err |-> "CacheMiss", val |-> NoVal,
          from_bstore |-> FALSE, src |-> 0]

\* mutant: the KeyError of the store is not turned into CacheMiss
RECURSIVE RecursPopKeyError(_, _, _)
RecursPopKeyError(m, i, key) ==
    IF key \in KeysOf(m.cache[i])
    THEN [m |-> SetCache(m, i, OdPop(m.cache[i], key)), err |-> "none",
          val |-> EntryOf(m.cache[i], key).v, from_bstore |-> FALSE, src |-> i]
    ELSE IF i < NumCaches THEN RecursPopKeyError(m, i + 1, key)
    ELSE IF ~m.has_bstore
         THEN [m |-> m, err |-> "CacheMiss", val |-> NoVal,
               from_bstore |-> FALSE, src |-> 0]
    ELSE IF ~m.bs_open
         THEN [m |-> m, err |-> "BStoreClosedError", val |-> NoVal,
               from_bstore |-> FALSE, src |-> 0]
    ELSE IF key \in DOMAIN m.db
         THEN [m |-> m, err |-> "none", val |-> m.db[key],
               from_bstore |-> TRUE, src |-> NumCaches + 1]
    ELSE [m |-> m, err |-> "KeyError", val |-> NoVal,
          from_bstore |-> FALSE, src |-> 0]

\* Cache._recurs_pop_unless_from_bs, started at layer i.
RECURSIVE RecursPopUnlessFromBs(_, _, _)
RecursPopUnlessFromBs(m, i, key) ==
    IF key \in KeysOf(m.cache[i])
    THEN [m |-> SetCache(m, i, OdPop(m.cache[i], key)), err |-> "none",
          val |-> EntryOf(m.cache[i], key).v, from_bstore |-> FALSE, src |-> i]
    ELSE IF i < NumCaches THEN RecursPopUnlessFromBs(m, i + 1, key)
    ELSE IF ~m.has_bstore
         THEN [m |-> m, err |-> "CacheMiss", val |-> NoVal,
               from_bstore |-> FALSE, src |-> 0]
    ELSE IF ~m.bs_open
         THEN [m |-> m, err |-> "BStoreClosedError", val |-> NoVal,
               from_bstore |-> FALSE, src |-> 0]
    ELSE IF key \in DOMAIN m.db
         THEN [m |-> m, err |-> "none", val |-> m.db[key],
               from_bstore |-> TRUE, src |-> NumCaches + 1]
    ELSE [m |-> m, err |-> "CacheMiss", val |-> NoVal,
          from_bstore |-> FALSE, src |-> 0]

\* mutant: the notification is never acted upon
ModifyDirtyIgnored(m, i) == m

\* mutant: the slot is cleared whether the key is found or not
ModifyDirtyAlwaysClears(m, i) ==
    IF m.modify_key[i] = NoKey THEN m
    ELSE IF m.modify_key[i] \in KeysOf(m.cache[i])
    THEN [m EXCEPT
            !.cache[i] = OdSet(@, Val(TRUE, EntryOf(@, m.modify_key[i]).v,
                                      m.modify_key[i])),
            !.modify_key[i] = NoKey]
    ELSE [m EXCEPT !.modify_key[i] = NoKey]

\* Cache._modify_dirty_if_notified: the slot is cleared only when the key is
\* found (the KeyError branch passes and leaves it set).
ModifyDirtyIfNotified(m, i) ==
    IF m.modify_key[i] # NoKey /\ m.modify_key[i] \in KeysOf(m.cache[i])
    THEN [m EXCEPT
            !.cache[i] = OdSet(@, Val(TRUE, EntryOf(@, m.modify_key[i]).v,
                                      m.modify_key[i])),
            !.modify_key[i] = NoKey]
    ELSE m

\* mutant: the new entry goes to the LRU end
SetItemFinishAtLru(m, i, key, val, dirty) ==
    ModifyDirtyIfNotified(
        SetCache(m, i, <<Val(dirty, val, key)>> \o m.cache[i]), i)

\* the last two statements of Cache._setitem
SetItemFinish(m, i, key, val, dirty) ==
    ModifyDirtyIfNotified(
        SetCache(m, i, Append(m.cache[i], Val(dirty, val, key))), i)

\* mutant: the evicted entries are dropped, whatever lies below
RECURSIVE SetItemEvictDiscards(_, _, _, _, _)
SetItemEvictDiscards(m, i, key, val, dirty) ==
    IF Len(m.cache[i]) >= m.capacity[i]
    THEN IF m.cache[i] = <<>> THEN {Raise(m, "KeyError")}
         ELSE SetItemEvictDiscards(SetCache(m, i, Tail(m.cache[i])),
                                   i, key, val, dirty)
    ELSE {Ok(SetItemFinish(m, i, key, val, dirty))}

\* Cache._setitem on layer i: the set of possible outcomes.  SetItemEvict is
\* the while loop of the KeyError branch.
RECURSIVE SetItem(_, _, _, _, _)
RECURSIVE SetItemEvict(_, _, _, _, _)
SetItemEvict(m, i, key, val, dirty) ==
    IF Len(m.cache[i]) >= m.capacity[i]
    THEN IF m.cache[i] = <<>> THEN {Raise(m, "KeyError")}
         ELSE LET e  == Head(m.cache[i])
                  m1 == SetCache(m, i, Tail(m.cache[i]))
                  lower == IF i < NumCaches
                           THEN SetItem(m1, i + 1, e.k, e.v, e.d)
                           ELSE IF m1.has_bstore /\ e.d
                                THEN BsSetItem(m1, e.k, e.v)
                                ELSE {Ok(m1)}
              IN UNION {IF o.err # "none" THEN {o}
                        ELSE SetItemEvict(o.m, i, key, val, dirty) :
                           o \in lower}
    ELSE {Ok(SetItemFinish(m, i, key, val, dirty))}

SetItem(m, i, key, val, dirty) ==
    IF key \in KeysOf(m.cache[i])
    THEN {Ok(SetItemFinish(SetCache(m, i, OdPop(m.cache[i], key)),
                           i, key, val, dirty))}
    ELSE SetItemEvict(m, i, key, val, dirty)

\* the dict comprehension of one layer in Cache._send_bs_nondirties
NondirtyOf(od) ==
    [x \in {od[n].k : n \in {j \in 1..Len(od) : ~od[j].d}} |-> EntryOf(od, x).v]

RECURSIVE NondirtiesFrom(_, _, _)
NondirtiesFrom(m, i, acc) ==
    IF i > NumCaches THEN acc
    ELSE NondirtiesFrom(m, i + 1, MapUpdate(acc, NondirtyOf(m.cache[i])))

\* Cache._send_bs_nondirties(*more), more given as a map
SendBsNondirties(m, i, more) ==
    IF m.has_bstore
    THEN [m EXCEPT !.nondirty_map = NondirtiesFrom(m, i, more)]
    ELSE m

\* mutant: the promoted entry is dirty wherever it came from
GetItemAlwaysDirty(m, i, key) ==
    LET p == RecursPopUnlessFromBs(m, i, key) IN
    IF p.err # "none"
    THEN {[m |-> p.m, err |-> p.err, ret |-> NoVal, src |-> p.src]}
    ELSE {[m |-> o.m, err |-> o.err,
           ret |-> IF o.err = "none" THEN p.val ELSE NoVal, src |-> p.src] :
            o \in SetItem(SendBsNondirties(p.m, i, MapPut(EmptyMap, key, p.val)),
                          i, key, p.val, TRUE)}

\* Cache.__getitem__ on layer i: outcomes with the value returned.
GetItem(m, i, key) ==
    LET p == RecursPopUnlessFromBs(m, i, key) IN
    IF p.err # "none"
    THEN {[m |-> p.m, err |-> p.err, ret |-> NoVal, src |-> p.src]}
    ELSE {[m |-> o.m, err |-> o.err,
           ret |-> IF o.err = "none" THEN p.val ELSE NoVal, src |-> p.src] :
            o \in SetItem(SendBsNondirties(p.m, i, MapPut(EmptyMap, key, p.val)),
                          i, key, p.val, ~p.from_bstore)}

\* mutant: the value recovered by the probe is written back instead of val
CacheSetItemKeepsOld(m, i, key, val) ==
    LET p == RecursPopUnlessFromBs(m, i, key) IN
    IF p.err = "BStoreClosedError"
    THEN {[m |-> p.m, err |-> p.err, ret |-> NoVal, src |-> p.src]}
    ELSE {[m |-> o.m, err |-> o.err, ret |-> NoVal, src |-> p.src] :
            o \in SetItem(SendBsNondirties(p.m, i,
                              IF p.err = "none"
                              THEN MapPut(EmptyMap, key, p.val) ELSE EmptyMap),
                          i, key, IF p.err = "none" THEN p.val ELSE val, TRUE)}

\* Cache.__setitem__ on layer i
CacheSetItem(m, i, key, val) ==
    LET p == RecursPopUnlessFromBs(m, i, key) IN
    IF p.err = "BStoreClosedError"
    THEN {[m |-> p.m, err |-> p.err, ret |-> NoVal, src |-> p.src]}
    ELSE {[m |-> o.m, err |-> o.err, ret |-> NoVal, src |-> p.src] :
            o \in SetItem(SendBsNondirties(p.m, i,
                              IF p.err = "none"
                              THEN MapPut(EmptyMap, key, p.val) ELSE EmptyMap),
                          i, key, val, TRUE)}

\* mutant: setdefault writes default over a value that Lookup has found
CacheSetDefaultOverwrites(m, i, key, default) ==
    UNION {IF g.err = "CacheMiss" \/ g.err = "none"
           THEN {[s EXCEPT !.ret = IF s.err = "none" THEN default ELSE NoVal] :
                    s \in CacheSetItem(g.m, i, key, default)}
           ELSE {g} :
              g \in GetItem(m, i, key)}

\* Cache.setdefault on layer i
CacheSetDefault(m, i, key, default) ==
    UNION {IF g.err = "CacheMiss"
           THEN {[s EXCEPT !.ret = IF s.err = "none" THEN default ELSE NoVal] :
                    s \in CacheSetItem(g.m, i, key, default)}
           ELSE {g} :
              g \in GetItem(m, i, key)}

\* ------------------------------------------------------------ transitions
\* the fields an operation may assign; _lower_mem and _upper_mem are assigned
\* by the constructors alone
Install(m) ==
    /\ cache' = m.cache
    /\ capacity' = m.capacity
    /\ modify_key' = m.modify_key
    /\ has_bstore' = m.has_bstore
    /\ db' = m.db
    /\ bs_open' = m.bs_open
    /\ bs_capacity' = m.bs_capacity
    /\ nondirty_map' = m.nondirty_map
    /\ UNCHANGED <<lower_mem, upper_mem>>

\* the keys that the store evicts in the step although the nondirty map
\* holds them: the evictions of the notify branch of popitem
EvictedNotified ==
    {k \in DOMAIN db : k \notin DOMAIN db' /\ k \in DOMAIN nondirty_map'}

\* cache layer i completes an insertion (Cache._setitem) in the step: the top
\* layer in every top-level operation that returns, a lower layer when an
\* entry enters it
CompletesInsertion(op, err, i) ==
    /\ op \in {"Lookup", "Store", "SetDefault"} /\ err = "none"
    /\ i > 1 => KeysOf(cache'[i]) \ KeysOf(cache[i]) # {}

\* for every cache layer, the keys that the store has evicted under the
\* notify branch since the layer completed its latest insertion
Owed(op, err) ==
    [i \in DOMAIN cache' |->
        IF CompletesInsertion(op, err, i) THEN {}
        ELSE (IF i \in DOMAIN last.owed THEN last.owed[i] ELSE {}) \cup
             (IF op \in {"BsPopItem", "Lookup", "Store", "SetDefault"}
              THEN EvictedNotified ELSE {})]

\* last describes the latest operation: its arguments, the value returned or
\* the exception raised, where the probe found the key (src: a layer, or
\* NumCaches + 1 for the store, or 0), whether it repeats a Lookup that has
\* just returned (again), and the notifications that no insertion has
\* followed yet (owed).
Did(op, layer, key, val, ret, err, src) ==
    last' = [op |-> op, layer |-> layer, key |-> key, val |-> val,
             ret |-> ret, err |-> err, src |-> src, owed |-> Owed(op, err),
             again |-> /\ op = "Lookup" /\ last.op = "Lookup"
                       /\ last.key = key /\ last.err = "none"]

\* a single-layer or store operation that raised: only its name and the error
Failed(op, err) == Did(op, 0, NoKey, NoVal, NoVal, err, 0)

Step == nops < MaxOps /\ nops' = nops + 1

\* the three operations of the mapping interface, on the top layer
DoLookup(key) ==
    \E o \in GetItem(Mem, 1, key) :
       Install(o.m) /\ Did("Lookup", 1, key, NoVal, o.ret, o.err, o.src)

DoStore(key, val) ==
    \E o \in CacheSetItem(Mem, 1, key, val) :
       Install(o.m) /\ Did("Store", 1, key, val, NoVal, o.err, o.src)

DoSetDefault(key, default) ==
    \E o \in CacheSetDefault(Mem, 1, key, default) :
       Install(o.m) /\ Did("SetDefault", 1, key, default, o.ret, o.err, o.src)

Lookup(key) == Step /\ DoLookup(key) /\ UNCHANGED <<stored, in_with>>

Store(key, val) == Step /\ DoStore(key, val) /\ UNCHANGED <<stored, in_with>>

SetDefault(key, default) == Step /\ DoSetDefault(key, default) /\ UNCHANGED <<stored, in_with>>

\* BackingStore.open: shelve.open, then trim.
BsOpen ==
    /\ has_bstore
    /\ \E m \in TrimToCapacity([Mem EXCEPT !.bs_open = TRUE]) : Install(m)
    /\ Did("BsOpen", 0, NoKey, NoVal, NoVal, "none", 0)
    /\ UNCHANGED <<nops, stored, in_with>>

\* mutant: close() leaves the handle in place
BsCloseKeepsHandle ==
    /\ has_bstore
    /\ Install(Mem)
    /\ Did("BsClose", 0, NoKey, NoVal, NoVal, "none", 0)
    /\ UNCHANGED <<nops, stored, in_with>>

\* BackingStore.close
BsClose ==
    /\ has_bstore
    /\ Install([Mem EXCEPT !.bs_open = FALSE])
    /\ Did("BsClose", 0, NoKey, NoVal, NoVal, "none", 0)
    /\ UNCHANGED <<nops, stored, in_with>>

\* ---- single-layer operations of Cache (they never look below layer i)
\* mutant: the key is deleted from layer i and from every layer below it
CacheDeleteThrough(i, key) ==
    /\ Step
    /\ IF key \in KeysOf(cache[i])
       THEN /\ Install([Mem EXCEPT !.cache = [j \in Layers |->
                           IF j >= i THEN OdPop(cache[j], key) ELSE cache[j]]])
            /\ Did("CacheDelete", i, key, NoVal, NoVal, "none", 0)
       ELSE /\ Install(Mem)
            /\ Did("CacheDelete", i, key, NoVal, NoVal, "KeyError", 0)
    /\ UNCHANGED <<stored, in_with>>

\* Cache.__delitem__
CacheDelete(i, key) ==
    /\ Step
    /\ IF key \in KeysOf(cache[i])
       THEN /\ Install(SetCache(Mem, i, OdPop(cache[i], key)))
            /\ Did("CacheDelete", i, key, NoVal, NoVal, "none", 0)
       ELSE /\ Install(Mem)
            /\ Did("CacheDelete", i, key, NoVal, NoVal, "KeyError", 0)
    /\ UNCHANGED <<stored, in_with>>

\* Cache.pop(key) and Cache.pop(key, default) through Cache._pop
CachePop(i, key, has_default, default) ==
    /\ Step
    /\ IF key \in KeysOf(cache[i])
       THEN /\ Install(SetCache(Mem, i, OdPop(cache[i], key)))
            /\ Did(IF has_default THEN "CachePopDefault" ELSE "CachePop",
                   i, key, default, EntryOf(cache[i], key).v, "none", 0)
       ELSE /\ Install(Mem)
            /\ IF has_default
               THEN Did("CachePopDefault", i, key, default, default, "none", 0)
               ELSE Did("CachePop", i, key, default, NoVal, "KeyError", 0)
    /\ UNCHANGED <<stored, in_with>>

\* Cache._popitem: the entry taken and the rest (defined on a non-empty od)
PopItemOf(od, is_last) ==
    IF is_last
    THEN [e |-> od[Len(od)], rest |-> SubSeq(od, 1, Len(od) - 1)]
    ELSE [e |-> Head(od), rest |-> Tail(od)]

\* Cache.popitem(last)
CachePopItem(i, is_last) ==
    /\ Step
    /\ IF cache[i] # <<>>
       THEN /\ Install(SetCache(Mem, i, PopItemOf(cache[i], is_last).rest))
            /\ Did("CachePopItem", i, PopItemOf(cache[i], is_last).e.k, NoVal,
                   PopItemOf(cache[i], is_last).e.v, "none", 0)
       ELSE /\ Install(Mem)
            /\ Failed("CachePopItem", "KeyError")
    /\ UNCHANGED <<stored, in_with>>

\* Cache.clear
CacheClear(i) ==
    /\ Step
    /\ Install(SetCache(Mem, i, <<>>))
    /\ Did("CacheClear", i, NoKey, NoVal, NoVal, "none", 0)
    /\ UNCHANGED <<stored, in_with>>

\* Cache.update(other): other._items() go into the OrderedDict of layer i.
CacheUpdate(i, other) ==
    /\ Step
    /\ Install(SetCache(Mem, i, OdUpdate(cache[i], other)))
    /\ Did("CacheUpdate", i, NoKey, other, NoVal, "none", 0)
    /\ UNCHANGED <<stored, in_with>>

\* the capacity setter of Cache: popitem(last=False), trim times
TrimCache(od, cap) ==
    IF Len(od) - cap > 0 THEN SubSeq(od, Len(od) - cap + 1, Len(od)) ELSE od

\* a setter that hands the trimmed entries to the next cache layer
CapacitySetterDemotes(m, i, new_cap) ==
    LET od == m.cache[i]
        trim == Len(od) - new_cap
        trimmed == IF trim > 0 THEN SubSeq(od, 1, trim) ELSE <<>>
    IN  IF i < NumCaches
        THEN [m EXCEPT !.capacity[i] = new_cap,
                       !.cache[i] = TrimCache(@, new_cap),
                       !.cache[i + 1] = @ \o trimmed]
        ELSE [m EXCEPT !.capacity[i] = new_cap,
                       !.cache[i] = TrimCache(@, new_cap)]

\* the body of the capacity setter: the new capacity is stored as given and
\* popitem(last=False) runs once per entry in excess
CapacitySetter(m, i, new_cap) ==
    [m EXCEPT !.capacity[i] = new_cap, !.cache[i] = TrimCache(@, new_cap)]

CacheSetCapacity(i, new_cap) ==
    /\ Step
    /\ Install(CapacitySetter(Mem, i, new_cap))
    /\ Did("CacheSetCapacity", i, NoKey, new_cap, NoVal, "none", 0)
    /\ UNCHANGED <<stored, in_with>>

\* ---- operations called on the BackingStore itself
BsFinish(op, key, val, outs) ==
    \E o \in outs :
       /\ Install(o.m)
       /\ IF o.err = "none" THEN Did(op, 0, key, val, o.ret, "none", 0)
          ELSE Failed(op, o.err)

Closed(m) == {[m |-> m, err |-> "BStoreClosedError", ret |-> NoVal]}

Ret(m, r) == [m |-> m, err |-> "none", ret |-> r]

\* BackingStore.__setitem__ called by the user
BsSet(key, val) ==
    /\ has_bstore /\ Step
    /\ BsFinish("BsSet", key, val,
                {[m |-> o.m, err |-> o.err, ret |-> NoVal] :
                    o \in BsSetItem(Mem, key, val)})
    /\ UNCHANGED <<stored, in_with>>

\* BackingStore.__delitem__
BsDelete(key) ==
    /\ has_bstore /\ Step
    /\ BsFinish("BsDelete", key, NoVal,
                IF ~bs_open THEN Closed(Mem)
                ELSE IF key \in DOMAIN db
                     THEN {Ret([Mem EXCEPT !.db = MapDel(db, key)], NoVal)}
                     ELSE {[m |-> Mem, err |-> "KeyError", ret |-> NoVal]})
    /\ UNCHANGED <<stored, in_with>>

\* BackingStore.pop(key) and BackingStore.pop(key, default)
BsPop(key, has_default, default) ==
    /\ has_bstore /\ Step
    /\ BsFinish("BsPop", key, NoVal,
                IF ~bs_open THEN Closed(Mem)
                ELSE IF key \in DOMAIN db
                     THEN {Ret([Mem EXCEPT !.db = MapDel(db, key)], db[key])}
                     ELSE IF has_default THEN {Ret(Mem, default)}
                     ELSE {[m |-> Mem, err |-> "KeyError", ret |-> NoVal]})
    /\ UNCHANGED <<stored, in_with>>

\* BackingStore.popitem called by the user
DoBsPopItem ==
    \E o \in BsPopItem(Mem) :
       /\ Install(o.m)
       /\ IF o.err = "none"
          THEN LET k == CHOOSE x \in DOMAIN db : x \notin DOMAIN o.m.db
               IN Did("BsPopItem", 0, k, NoVal, db[k], "none", 0)
          ELSE Failed("BsPopItem", o.err)

BsPopItemOp ==
    /\ has_bstore /\ Step
    /\ DoBsPopItem
    /\ UNCHANGED <<stored, in_with>>

\* BackingStore.clear
BsClear ==
    /\ has_bstore /\ Step
    /\ BsFinish("BsClear", NoKey, NoVal,
                IF ~bs_open THEN Closed(Mem)
                ELSE {Ret([Mem EXCEPT !.db = EmptyMap], NoVal)})
    /\ UNCHANGED <<stored, in_with>>

\* BackingStore.update(other): the shelf's own update, no capacity loop
BsUpdate(other) ==
    /\ has_bstore /\ Step
    /\ BsFinish("BsUpdate", NoKey, NoVal,
                IF ~bs_open THEN Closed(Mem)
                ELSE {Ret([Mem EXCEPT !.db = MapUpdate(db, other)], NoVal)})
    /\ UNCHANGED <<stored, in_with>>

\* BackingStore.setdefault: the shelf's own setdefault, no capacity loop
BsSetDefault(key, default) ==
    /\ has_bstore /\ Step
    /\ BsFinish("BsSetDefault", key, default,
                IF ~bs_open THEN Closed(Mem)
                ELSE IF key \in DOMAIN db THEN {Ret(Mem, db[key])}
                ELSE {Ret([Mem EXCEPT !.db = MapPut(db, key, default)], default)})
    /\ UNCHANGED <<stored, in_with>>

\* the capacity setter of BackingStore
BsSetCapacity(new_cap) ==
    /\ has_bstore /\ Step
    /\ \E m \in TrimToCapacity([Mem EXCEPT !.bs_capacity = new_cap]) : Install(m)
    /\ Did("BsSetCapacity", 0, NoKey, new_cap, NoVal, "none", 0)
    /\ UNCHANGED <<stored, in_with>>

\* ---- construction
\* mutant: the seeded entries are clean
RECURSIVE InitOdClean(_)
InitOdClean(init_values) ==
    IF init_values = <<>> THEN <<>>
    ELSE OdSet(InitOdClean(SubSeq(init_values, 1, Len(init_values) - 1)),
               Val(FALSE, init_values[Len(init_values)][2],
                   init_values[Len(init_values)][1]))

\* Cache.__init__ with init_values: a list of pairs, every entry dirty
RECURSIVE InitOd(_)
InitOd(init_values) ==
    IF init_values = <<>> THEN <<>>
    ELSE OdSet(InitOd(SubSeq(init_values, 1, Len(init_values) - 1)),
               Val(TRUE, init_values[Len(init_values)][2],
                   init_values[Len(init_values)][1]))

\* the init_values the chains are constructed with
InitValues == {<<>>, << <<"a", 1>> >>, << <<"a", 1>>, <<"b", 2>> >>}

\* the shelve file a store finds at its first open()
InitFiles == {EmptyMap, [x \in {"a", "c"} |-> IF x = "a" THEN 2 ELSE 1]}

\* the caches passed to Cache.update
UpdateSources == {InitOd(iv) : iv \in InitValues \ {<<>>}}

\* the stores passed to BackingStore.update
BsUpdateSources == {[x \in {"b"} |-> 1], [x \in {"a", "b"} |-> 1]}

\* _lower_mem and _upper_mem of the chain Cache 1 over ... over Cache NumCaches
\* over the store, if there is one, as the constructors leave them
ChainLower(with_bstore) ==
    [i \in Layers |-> IF i < NumCaches THEN i + 1
                      ELSE IF with_bstore THEN Bs ELSE NoMem]

ChainUpper(with_bstore) ==
    [x \in Layers \cup (IF with_bstore THEN {Bs} ELSE {}) |->
        IF x = Bs THEN NumCaches ELSE IF x = 1 THEN NoMem ELSE x - 1]

InitLast == [op |-> "init", layer |-> 0, key |-> NoKey, val |-> NoVal,
             ret |-> NoVal, err |-> "none", src |-> 0, owed |-> <<>>,
             again |-> FALSE]

Init ==
    /\ \E c \in 1..MaxCap :
          /\ capacity = [i \in Layers |-> c]
          /\ bs_capacity = c
    /\ cache \in {c \in [Layers -> {InitOd(iv) : iv \in InitValues}] :
                    \A i \in Layers : i > 1 => Len(c[i]) <= 1}
    /\ modify_key = [i \in Layers |-> NoKey]
    /\ has_bstore \in BOOLEAN
    /\ db \in IF has_bstore THEN InitFiles ELSE {EmptyMap}
    /\ bs_open = FALSE
    /\ nondirty_map = EmptyMap
    /\ last = InitLast
    /\ nops = 0
    /\ stored = [k \in Keys |-> NoVal]
    /\ in_with = FALSE
    /\ lower_mem = ChainLower(has_bstore)
    /\ upper_mem = ChainUpper(has_bstore)

Next ==
    \/ \E key \in Keys : Lookup(key)
    \/ \E key \in Keys, val \in NewVals : Store(key, val)
    \/ \E key \in Keys, val \in NewVals : SetDefault(key, val)
    \/ \E i \in Layers, key \in Keys : CacheDelete(i, key)
    \/ \E i \in Layers, key \in Keys : CachePop(i, key, FALSE, NoVal)
    \/ \E i \in Layers, is_last \in BOOLEAN : CachePopItem(i, is_last)
    \/ \E i \in Layers : CacheClear(i)
    \/ \E i \in Layers, other \in UpdateSources : CacheUpdate(i, other)
    \/ \E i \in Layers, new_cap \in 0..MaxCap : CacheSetCapacity(i, new_cap)
    \/ BsOpen
    \/ BsClose
    \/ \E key \in Keys, val \in NewVals : BsSet(key, val)
    \/ \E key \in Keys : BsDelete(key)
    \/ \E key \in Keys : BsPop(key, FALSE, NoVal)
    \/ BsPopItemOp
    \/ BsClear
    \/ \E other \in BsUpdateSources : BsUpdate(other)
    \/ \E key \in Keys, val \in NewVals : BsSetDefault(key, val)
    \/ \E new_cap \in 0..MaxCap : BsSetCapacity(new_cap)

Spec == Init /\ [][Next]_vars

\* ---- a session of top-level operations only: the store, when there is one,
\* is opened first and stays open; stored remembers the value of the latest
\* successful Store of each key, the Store that SetDefault calls on a miss
\* (self[key] = default) included.
TopStep == nops < MaxTopOps /\ nops' = nops + 1 /\ (has_bstore => bs_open)

TopOpen == ~bs_open /\ BsOpen

TopLookup(key) == TopStep /\ DoLookup(key) /\ UNCHANGED <<stored, in_with>>

TopStore(key, val) ==
    /\ TopStep
    /\ DoStore(key, val)
    /\ stored' = IF last'.err = "none" THEN [stored EXCEPT ![key] = val]
                 ELSE stored
    /\ UNCHANGED in_with

TopSetDefault(key, default) ==
    /\ TopStep
    /\ DoSetDefault(key, default)
    /\ stored' = IF last'.err = "none" /\ last'.src = 0
                 THEN [stored EXCEPT ![key] = default]
                 ELSE stored
    /\ UNCHANGED in_with

NextTop ==
    \/ TopOpen
    \/ \E key \in Keys : TopLookup(key)
    \/ \E key \in Keys, val \in Vals : TopStore(key, val)
    \/ \E key \in Keys, val \in Vals : TopSetDefault(key, val)

SpecTop == Init /\ [][NextTop]_vars

\* ---- the session of test_2_lv_cache_with_bstore: Cache(1) over Cache(2) over
\* BackingStore(3), opened, then c['a'] = 1 ... c['f'] = 6 in this order, then
\* lookups of these keys.
ScriptKeys == <<"a", "b", "c", "d", "e", "f">>

InitRoundtrip ==
    /\ capacity = [i \in Layers |-> i]
    /\ bs_capacity = NumCaches + 1
    /\ cache = [i \in Layers |-> <<>>]
    /\ modify_key = [i \in Layers |-> NoKey]
    /\ has_bstore = TRUE
    /\ db = EmptyMap
    /\ bs_open = FALSE
    /\ nondirty_map = EmptyMap
    /\ last = InitLast
    /\ nops = 0
    /\ stored = [k \in Keys |-> NoVal]
    /\ in_with = FALSE
    /\ lower_mem = ChainLower(has_bstore)
    /\ upper_mem = ChainUpper(has_bstore)

ScriptOpen == ~bs_open /\ BsOpen

\* the n-th operation stores the n-th key with value n
ScriptStore ==
    /\ bs_open
    /\ nops < Len(ScriptKeys)
    /\ nops' = nops + 1
    /\ DoStore(ScriptKeys[nops + 1], nops + 1)
    /\ UNCHANGED <<stored, in_with>>

ScriptLookup(key) ==
    /\ bs_open
    /\ nops >= Len(ScriptKeys)
    /\ nops < Len(ScriptKeys) + MaxLookups
    /\ nops' = nops + 1
    /\ DoLookup(key)
    /\ UNCHANGED <<stored, in_with>>

NextRoundtrip ==
    \/ ScriptOpen
    \/ ScriptStore
    \/ \E n \in 1..Len(ScriptKeys) : ScriptLookup(ScriptKeys[n])

SpecRoundtrip == InitRoundtrip /\ [][NextRoundtrip]_vars

\* ---- the reading operations of BackingStore, and a specification of the
\* store's whole interface under a chain that is used from the top
\* BackingStore.closed
BsClosed ==
    /\ has_bstore /\ Step
    /\ Install(Mem)
    /\ Did("BsClosed", 0, NoKey, NoVal, ~bs_open, "none", 0)
    /\ UNCHANGED <<stored, in_with>>

\* BackingStore.__getitem__
BsGetItem(key) ==
    /\ has_bstore /\ Step
    /\ BsFinish("BsGetItem", key, NoVal,
                IF ~bs_open THEN Closed(Mem)
                ELSE IF key \in DOMAIN db THEN {Ret(Mem, db[key])}
                ELSE {[m |-> Mem, err |-> "KeyError", ret |-> NoVal]})
    /\ UNCHANGED <<stored, in_with>>

\* BackingStore.get(key, default)
BsGet(key, default) ==
    /\ has_bstore /\ Step
    /\ BsFinish("BsGet", key, default,
                IF ~bs_open THEN Closed(Mem)
                ELSE {Ret(Mem, IF key \in DOMAIN db THEN db[key] ELSE default)})
    /\ UNCHANGED <<stored, in_with>>

\* BackingStore.__contains__
BsContains(key) ==
    /\ has_bstore /\ Step
    /\ BsFinish("BsContains", key, NoVal,
                IF ~bs_open THEN Closed(Mem)
                ELSE {Ret(Mem, key \in DOMAIN db)})
    /\ UNCHANGED <<stored, in_with>>

\* BackingStore.__len__
BsLen ==
    /\ has_bstore /\ Step
    /\ BsFinish("BsLen", NoKey, NoVal,
                IF ~bs_open THEN Closed(Mem)
                ELSE {Ret(Mem, Cardinality(DOMAIN db))})
    /\ UNCHANGED <<stored, in_with>>

\* BackingStore.__iter__ and BackingStore.keys: the keys, in no order
BsKeys(op) ==
    /\ has_bstore /\ Step
    /\ BsFinish(op, NoKey, NoVal,
                IF ~bs_open THEN Closed(Mem) ELSE {Ret(Mem, DOMAIN db)})
    /\ UNCHANGED <<stored, in_with>>

\* BackingStore.values: the values, in no order (a count per value)
BsValues ==
    /\ has_bstore /\ Step
    /\ BsFinish("BsValues", NoKey, NoVal,
                IF ~bs_open THEN Closed(Mem)
                ELSE {Ret(Mem, [v \in {db[k] : k \in DOMAIN db} |->
                                  Cardinality({k \in DOMAIN db : db[k] = v})])})
    /\ UNCHANGED <<stored, in_with>>

\* BackingStore.items: the pairs, in no order
BsItems ==
    /\ has_bstore /\ Step
    /\ BsFinish("BsItems", NoKey, NoVal,
                IF ~bs_open THEN Closed(Mem) ELSE {Ret(Mem, db)})
    /\ UNCHANGED <<stored, in_with>>

NextStore ==
    \/ BsOpen
    \/ BsClose
    \/ BsClosed
    \/ \E key \in Keys : BsGetItem(key)
    \/ \E key \in Keys : BsGet(key, NoVal)
    \/ \E key \in Keys : BsContains(key)
    \/ BsLen
    \/ \E op \in {"BsIter", "BsKeys"} : BsKeys(op)
    \/ BsValues
    \/ BsItems
    \/ \E key \in Keys, val \in NewVals : BsSet(key, val)
    \/ \E key \in Keys : BsDelete(key)
    \/ \E key \in Keys : BsPop(key, FALSE, NoVal)
    \/ BsPopItemOp
    \/ BsClear
    \/ \E other \in BsUpdateSources : BsUpdate(other)
    \/ \E key \in Keys, val \in NewVals : BsSetDefault(key, val)
    \/ \E new_cap \in 0..MaxCap : BsSetCapacity(new_cap)
    \/ \E key \in Keys : Lookup(key)
    \/ \E key \in Keys, val \in NewVals : Store(key, val)

SpecStore == Init /\ [][NextStore]_vars

\* ---- Cache.open_bstore, Cache.close_bstore and the "with cache:" block
\* Cache.open_bstore: the outcomes
OpenBstore(m) ==
    IF ~m.has_bstore THEN {Raise(m, "NoBStoreError")}
    ELSE {Ok(x) : x \in TrimToCapacity([m EXCEPT !.bs_open = TRUE])}

\* mutant: close_bstore does nothing
CloseBstoreNoop(m) == m

\* Cache.close_bstore: a no-op on a chain without a store
CloseBstore(m) ==
    IF m.has_bstore THEN [m EXCEPT !.bs_open = FALSE] ELSE m

\* c.open_bstore() called by the user
CacheOpenBstore ==
    /\ Step
    /\ \E o \in OpenBstore(Mem) :
          /\ Install(o.m)
          /\ Did("OpenBstore", 1, NoKey, NoVal, NoVal, o.err, 0)
    /\ UNCHANGED <<stored, in_with>>

\* c.close_bstore() called by the user
CacheCloseBstore ==
    /\ Step
    /\ Install(CloseBstore(Mem))
    /\ Did("CloseBstore", 1, NoKey, NoVal, NoVal, "none", 0)
    /\ UNCHANGED <<stored, in_with>>

\* "with c:" is entered: Cache.__enter__; when it raises, the block is not
\* entered and __exit__ is not called.
Enter ==
    /\ ~in_with /\ Step
    /\ \E o \in OpenBstore(Mem) :
          /\ Install(o.m)
          /\ Did("Enter", 1, NoKey, NoVal, NoVal, o.err, 0)
          /\ in_with' = (o.err = "none")
    /\ UNCHANGED stored

\* the end of the block is reached: Cache.__exit__
ExitWith ==
    /\ in_with /\ Step
    /\ Install(CloseBstore(Mem))
    /\ Did("Exit", 1, NoKey, NoVal, NoVal, "none", 0)
    /\ in_with' = FALSE
    /\ UNCHANGED stored

\* an operation of the block has ended with outcome o: an exception that the
\* block does not catch leaves the block through Cache.__exit__, which
\* closes the store and returns False (the exception goes on).
InWith(o, caught) ==
    IF o.err = "none" \/ caught
    THEN Install(o.m) /\ in_with' = in_with
    ELSE Install(CloseBstore(o.m)) /\ in_with' = FALSE

\* c[key] inside the block
WithLookup(key, caught) ==
    /\ in_with /\ Step
    /\ \E o \in GetItem(Mem, 1, key) :
          /\ InWith(o, caught)
          /\ Did("Lookup", 1, key, NoVal, o.ret, o.err, o.src)
    /\ UNCHANGED stored

\* c[key] = val inside the block
WithStore(key, val, caught) ==
    /\ in_with /\ Step
    /\ \E o \in CacheSetItem(Mem, 1, key, val) :
          /\ InWith(o, caught)
          /\ Did("Store", 1, key, val, NoVal, o.err, o.src)
    /\ UNCHANGED stored

NextWith ==
    \/ Enter
    \/ ExitWith
    \/ \E key \in Keys, caught \in BOOLEAN : WithLookup(key, caught)
    \/ \E key \in Keys, val \in NewVals, caught \in BOOLEAN :
          WithStore(key, val, caught)
    \/ CacheOpenBstore
    \/ CacheCloseBstore

SpecWith == Init /\ [][NextWith]_vars

\* ---- the operations of one cache layer, called on any layer of a chain
\* that is also used from the top
\* Cache.get(key, default): the layer's own mapping is read, nothing moves
CacheGet(i, key, default) ==
    /\ Step
    /\ Install(Mem)
    /\ Did("CacheGet", i, key, default,
           IF key \in KeysOf(cache[i]) THEN EntryOf(cache[i], key).v ELSE default,
           "none", 0)
    /\ UNCHANGED <<stored, in_with>>

\* Cache.__eq__: layer i == layer j
CacheEq(i, j) ==
    /\ Step
    /\ Install(Mem)
    /\ Did("CacheEq", i, NoKey, j,
           cache[i] = cache[j] /\ capacity[i] = capacity[j], "none", 0)
    /\ UNCHANGED <<stored, in_with>>

NextLayer ==
    \/ \E i \in Layers, key \in Keys : CacheDelete(i, key)
    \/ \E i \in Layers, key \in Keys : CachePop(i, key, FALSE, NoVal)
    \/ \E i \in Layers, key \in Keys, default \in NewVals :
          CachePop(i, key, TRUE, default)
    \/ \E i \in Layers, key \in Keys, default \in NewVals :
          CacheGet(i, key, default)
    \/ \E i \in Layers, is_last \in BOOLEAN : CachePopItem(i, is_last)
    \/ \E i \in Layers : CacheClear(i)
    \/ \E i \in Layers, other \in UpdateSources : CacheUpdate(i, other)
    \/ \E i \in Layers, new_cap \in 0..MaxCap : CacheSetCapacity(i, new_cap)
    \/ \E i, j \in Layers : CacheEq(i, j)
    \/ \E key \in Keys : Lookup(key)
    \/ \E key \in Keys, val \in NewVals : Store(key, val)
    \/ BsOpen
    \/ BsClose

SpecLayer == Init /\ [][NextLayer]_vars

\* ---- construction of the objects, one at a time: Cache(capacity,
\* init_values, lower_mem) and BackingStore(capacity).  The caches are
\* numbered in the order of their construction; cache, capacity, modify_key
\* and lower_mem grow by one with every cache.
CtorCapacities == {0, 1}

CtorInitValues == InitValues \cup {<< <<"a", 1>>, <<"b", 2>>, <<"a", 2>> >>}

InitCtor ==
    /\ cache = <<>>
    /\ capacity = <<>>
    /\ modify_key = <<>>
    /\ lower_mem = <<>>
    /\ upper_mem = EmptyMap
    /\ has_bstore = FALSE
    /\ db = EmptyMap
    /\ bs_open = FALSE
    /\ bs_capacity = NoVal
    /\ nondirty_map = EmptyMap
    /\ last = InitLast
    /\ nops = 0
    /\ stored = [k \in Keys |-> NoVal]
    /\ in_with = FALSE

\* Cache.__init__
Construct(cap, init_values, lower) ==
    /\ Len(cache) < MaxCaches
    /\ lower \in {NoMem} \cup (1..Len(cache)) \cup (IF has_bstore THEN {Bs} ELSE {})
    /\ UNCHANGED <<has_bstore, db, bs_open, bs_capacity, nondirty_map,
                   nops, stored, in_with>>
    /\ IF cap < 1
       THEN /\ UNCHANGED <<cache, capacity, modify_key, lower_mem, upper_mem>>
            /\ Failed("Construct", "ValueError")
       ELSE LET self == Len(cache) + 1 IN
            /\ capacity' = Append(capacity, cap)
            /\ lower_mem' = Append(lower_mem, lower)
            /\ modify_key' = Append(modify_key, NoKey)
            /\ upper_mem' = IF lower # NoMem
                            THEN MapPut(MapPut(upper_mem, self, NoMem), lower, self)
                            ELSE MapPut(upper_mem, self, NoMem)
            /\ cache' = Append(cache, InitOd(init_values))
            /\ Did("Construct", self, NoKey, init_values, NoVal, "none", 0)

\* BackingStore.__init__: the store is closed; db is the file of its dbname
ConstructStore(cap, file) ==
    /\ ~has_bstore
    /\ UNCHANGED <<cache, capacity, modify_key, lower_mem, nops, stored, in_with>>
    /\ IF cap < 1
       THEN /\ UNCHANGED <<has_bstore, db, bs_open, bs_capacity, nondirty_map,
                           upper_mem>>
            /\ Failed("ConstructStore", "ValueError")
       ELSE /\ has_bstore' = TRUE
            /\ bs_capacity' = cap
            /\ db' = file
            /\ bs_open' = FALSE
            /\ nondirty_map' = EmptyMap
            /\ upper_mem' = MapPut(upper_mem, Bs, NoMem)
            /\ Did("ConstructStore", 0, NoKey, cap, NoVal, "none", 0)

NextCtor ==
    \/ \E cap \in CtorCapacities, init_values \in CtorInitValues,
          lower \in {NoMem, Bs} \cup (1..MaxCaches) :
          Construct(cap, init_values, lower)
    \/ \E cap \in CtorCapacities, file \in InitFiles : ConstructStore(cap, file)

SpecCtor == InitCtor /\ [][NextCtor]_vars

\* Cache.items: the (key, value) pairs in iteration order
CacheItems(od) == [n \in 1..Len(od) |-> <<od[n].k, od[n].v>>]

\* ---- top-level stores and lookups with a fourth key, on the chain
\* Cache(c, init_values) over Cache(c, [('c', 1)]) or Cache(c, [('b', 1)])
\* over BackingStore(n): enough keys for one insertion to evict twice from
\* the lowest cache layer, and for the store to hold two other keys.
KeysEvict == Keys \cup {"d"}

InitEvict ==
    /\ \E c \in 1..MaxCap : capacity = [i \in Layers |-> c]
    /\ bs_capacity \in 1..MaxCap
    /\ cache \in {c \in [Layers -> {InitOd(iv) : iv \in InitValues \cup
                              {<< <<"c", 1>> >>, << <<"b", 1>> >>}}] :
                    c[NumCaches] \in {<<>>, InitOd(<< <<"c", 1>> >>),
                                      InitOd(<< <<"b", 1>> >>)}}
    /\ modify_key = [i \in Layers |-> NoKey]
    /\ has_bstore = TRUE
    /\ db \in InitFiles
    /\ bs_open = FALSE
    /\ nondirty_map = EmptyMap
    /\ last = InitLast
    /\ nops = 0
    /\ stored = [k \in Keys |-> NoVal]
    /\ in_with = FALSE
    /\ lower_mem = ChainLower(TRUE)
    /\ upper_mem = ChainUpper(TRUE)

NextEvict ==
    \/ TopOpen
    \/ \E key \in KeysEvict : Lookup(key)
    \/ \E key \in KeysEvict, val \in NewVals : Store(key, val)

SpecEvict == InitEvict /\ [][NextEvict]_vars

\* ---- a session of lookups and stores on the top layer over the open store,
\* in which the user also calls popitem on the store
NotifyStep == nops < MaxNotifyOps /\ nops' = nops + 1 /\ has_bstore /\ bs_open

NotifyLookup(key) == NotifyStep /\ DoLookup(key) /\ UNCHANGED <<stored, in_with>>

NotifyStore(key, val) ==
    NotifyStep /\ DoStore(key, val) /\ UNCHANGED <<stored, in_with>>

NotifyPopItem == NotifyStep /\ DoBsPopItem /\ UNCHANGED <<stored, in_with>>

NextNotify ==
    \/ TopOpen
    \/ \E key \in Keys : NotifyLookup(key)
    \/ \E key \in Keys, val \in NewVals : NotifyStore(key, val)
    \/ NotifyPopItem

SpecNotify == Init /\ [][NextNotify]_vars

\* ================================================================ claims
AnyCacheHas(key) == \E i \in Layers : key \in KeysOf(cache[i])

\* the first layer, from the top, that holds key
FirstLayerWith(key) ==
    CHOOSE i \in Layers : /\ key \in KeysOf(cache[i])
                          /\ \A j \in 1..(i - 1) : key \notin KeysOf(cache[j])

Pos(od, key) == CHOOSE n \in 1..Len(od) : od[n].k = key

Mru(od) == od[Len(od)]

\* the step is one data operation named op (open and close leave nops alone)
IsOp(op) == nops' # nops /\ last'.op = op

\* C1: in every reachable state every cache entry whose dirty flag is false
\* has its (key, value) pair in the terminal backing store.
C1_CleanEntriesAreInStore ==
    \A i \in Layers : \A n \in 1..Len(cache[i]) :
       ~cache[i][n].d =>
          /\ has_bstore
          /\ cache[i][n].k \in DOMAIN db
          /\ db[cache[i][n].k] = cache[i][n].v

\* C2: after construction and after every public operation every cache layer
\* holds at most capacity entries.
C2_LenWithinCapacity ==
    \A i \in Layers : 0 <= Len(cache[i]) /\ Len(cache[i]) <= capacity[i]

\* C3: an open store never holds more entries than its capacity.
C3_StoreWithinCapacity ==
    (has_bstore /\ bs_open) => Cardinality(DOMAIN db) <= bs_capacity

\* the keys held by the layers above layer i
KeysAbove(i) == UNION {KeysOf(cache[j]) : j \in 1..(i - 1)}

\* Across the step, the entries of layer i other than key keep their values
\* and their relative order, except the ones that arrive from a layer above
\* (demotions), which are the only newcomers.
OthersKeptBut(key, i) ==
    /\ \A n \in 1..Len(cache'[i]) :
          cache'[i][n].k # key =>
             \E j \in 1..i : \E p \in 1..Len(cache[j]) :
                /\ cache[j][p].k = cache'[i][n].k
                /\ cache[j][p].v = cache'[i][n].v
                /\ (j = i \/ cache'[i][n].k \in KeysAbove(i))
    /\ \A x, y \in (KeysOf(cache[i]) \cap KeysOf(cache'[i]))
                      \ ({key} \cup KeysAbove(i)) :
          Pos(cache[i], x) < Pos(cache[i], y)
             => Pos(cache'[i], x) < Pos(cache'[i], y)

\* C4: Lookup(k) on the top layer, with k held by some cache layer, returns
\* the value of the first layer holding k, removes k from that layer and
\* leaves (k, value, dirty) at the MRU end of the top layer; the other
\* entries of each layer move only by the demotions the insertion forces.
C4_LookupPromotesFromCache ==
    [][\A key \in Keys :
          (IsOp("Lookup") /\ last'.key = key /\ AnyCacheHas(key)) =>
             LET f == FirstLayerWith(key) IN
             /\ last'.err = "none"
             /\ last'.ret = EntryOf(cache[f], key).v
             /\ (f # 1 => key \notin KeysOf(cache'[f]))
             /\ cache'[1] # <<>>
             /\ Mru(cache'[1]) = Val(TRUE, last'.ret, key)
             /\ \A i \in Layers : OthersKeptBut(key, i)]_vars

\* the same property on the chains in which the insertion cannot fail: every
\* layer within a capacity of at least 1
LookupPromotesWithinCapacity ==
    [][\A key \in Keys :
          (/\ IsOp("Lookup") /\ last'.key = key /\ AnyCacheHas(key)
           /\ \A i \in Layers : capacity[i] >= 1 /\ Len(cache[i]) <= capacity[i]) =>
             LET f == FirstLayerWith(key) IN
             /\ last'.err = "none"
             /\ last'.ret = EntryOf(cache[f], key).v
             /\ (f # 1 => key \notin KeysOf(cache'[f]))
             /\ cache'[1] # <<>>
             /\ Mru(cache'[1]) = Val(TRUE, last'.ret, key)
             /\ \A i \in Layers : OthersKeptBut(key, i)]_vars

\* the step is a Lookup(key) on the top layer that goes down to the open
\* store and finds key there
LookupFromStore(key) ==
    /\ IsOp("Lookup") /\ last'.key = key
    /\ ~AnyCacheHas(key)
    /\ has_bstore /\ bs_open /\ key \in DOMAIN db

C6_LookupReturnsLatestStore ==
    /\ (last.op = "Lookup" /\ last.err = "none") =>
          /\ (stored[last.key] # NoVal => last.ret = stored[last.key])
          /\ cache[1] # <<>>
          /\ Mru(cache[1]).k = last.key
          /\ Mru(cache[1]).v = last.ret
    /\ (last.op = "SetDefault" /\ last.err = "none" /\ last.src # 0) =>
          (stored[last.key] # NoVal => last.ret = stored[last.key])

\* a Lookup has fetched from the store a key that was written by a Store
C6_Witness ==
    /\ last.op = "Lookup" /\ last.err = "none" /\ last.src = NumCaches + 1
    /\ stored[last.key] # NoVal

C8_LookupMissChangesNothing ==
    [][\A key \in Keys :
          (/\ IsOp("Lookup") /\ last'.key = key
           /\ ~AnyCacheHas(key)
           /\ (~has_bstore \/ (bs_open /\ key \notin DOMAIN db))) =>
             /\ last'.err = "CacheMiss"
             /\ cache' = cache
             /\ db' = db
             /\ modify_key' = modify_key
             /\ nondirty_map' = nondirty_map
             /\ capacity' = capacity /\ bs_open' = bs_open]_vars

\* a Lookup has missed in a chain that holds other entries
C8_Witness ==
    /\ last.op = "Lookup" /\ last.err = "CacheMiss"
    /\ has_bstore /\ bs_open /\ db # EmptyMap
    /\ \E i \in Layers : cache[i] # <<>>

\* C9: a Store that fails leaves the caches, the pending slots, the store
\* contents and the nondirty map as they were.
C9_FailedStoreChangesNothing ==
    [][(IsOp("Store") /\ last'.err # "none") =>
          /\ cache' = cache
          /\ modify_key' = modify_key
          /\ db' = db
          /\ nondirty_map' = nondirty_map]_vars

\* the same property on the chains in which every layer is within a capacity
\* of at least 1
FailedStoreWithinCapacity ==
    [][(/\ IsOp("Store") /\ last'.err # "none"
        /\ \A i \in Layers : capacity[i] >= 1 /\ Len(cache[i]) <= capacity[i]) =>
          /\ cache' = cache
          /\ modify_key' = modify_key
          /\ db' = db
          /\ nondirty_map' = nondirty_map]_vars

\* the step is a Lookup(key) that directly follows a Lookup(key) that returned
SecondLookup(key) ==
    /\ IsOp("Lookup") /\ last'.key = key
    /\ last.op = "Lookup" /\ last.key = key /\ last.err = "none"

\* C10 as stated: the second of two consecutive Lookup(k) returns the same
\* value and leaves every layer's entries, order and dirty flags and the
\* store contents as the first left them.
C10_Original ==
    [][\A key \in Keys :
          SecondLookup(key) =>
             /\ last'.err = "none"
             /\ last'.ret = last.ret
             /\ cache' = cache
             /\ db' = db]_vars

\* C10 (amended): the second of two consecutive Lookup(k) returns the same
\* value and leaves every layer's keys, values and order and the store
\* contents as the first left them, k being the MRU entry of the top layer;
\* of the dirty flags only k's may change: it is true afterwards.
C10_SecondLookup ==
    [][\A key \in Keys :
          SecondLookup(key) =>
             /\ last'.err = "none"
             /\ last'.ret = last.ret
             /\ cache[1] # <<>>
             /\ Mru(cache[1]).k = key
             /\ cache' = [cache EXCEPT ![1][Len(cache[1])].d = TRUE]
             /\ db' = db]_vars

\* a Lookup has been repeated and has returned
C10_Witness ==
    /\ last.op = "Lookup" /\ last.again /\ last.err = "none"
    /\ last.src = 1
    /\ Mru(cache[1]) = Val(TRUE, last.ret, last.key)

\* the chain once the six stores of the script are done
AfterSixStores ==
    /\ cache[1] = <<Val(TRUE, 6, "f")>>
    /\ cache[2] = <<Val(TRUE, 4, "d"), Val(TRUE, 5, "e")>>
    /\ db = [x \in {"a", "b", "c"} |-> IF x = "a" THEN 1 ELSE IF x = "b" THEN 2 ELSE 3]

\* the state is the one left by Lookup(a) called right after the six stores
LookupAAfterStores ==
    /\ nops = Len(ScriptKeys) + 1
    /\ last.op = "Lookup" /\ last.key = "a"

\* C11 as stated: after the six stores top = [f], middle = [d, e], store =
\* {a:1, b:2, c:3}; the following Lookup(a) gives top = [(a, 1)] clean and
\* leaves the middle layer and the store contents unchanged.
C11_Original ==
    /\ nops = Len(ScriptKeys) => AfterSixStores
    /\ LookupAAfterStores =>
          /\ last.err = "none" /\ last.ret = 1
          /\ cache[1] = <<Val(FALSE, 1, "a")>>
          /\ cache[2] = <<Val(TRUE, 4, "d"), Val(TRUE, 5, "e")>>
          /\ db = [x \in {"a", "b", "c"} |->
                     IF x = "a" THEN 1 ELSE IF x = "b" THEN 2 ELSE 3]

\* C11 (amended): after the six stores top = [f], middle = [d, e], store =
\* {a:1, b:2, c:3}; the following Lookup(a) returns 1 and gives top = [(a, 1)]
\* clean; f is demoted to the middle layer, which becomes [e, f], and d is
\* written back to the full store, which evicts b or c: the store holds a:1,
\* d:4 and one of b:2, c:3.
C11_Roundtrip ==
    /\ nops = Len(ScriptKeys) => AfterSixStores
    /\ LookupAAfterStores =>
          /\ last.err = "none" /\ last.ret = 1
          /\ cache[1] = <<Val(FALSE, 1, "a")>>
          /\ cache[2] = <<Val(TRUE, 5, "e"), Val(TRUE, 6, "f")>>
          /\ db \in {[x \in {"a", "b", "d"} |->
                        IF x = "a" THEN 1 ELSE IF x = "b" THEN 2 ELSE 4],
                     [x \in {"a", "c", "d"} |->
                        IF x = "a" THEN 1 ELSE IF x = "c" THEN 3 ELSE 4]}

\* Lookup(a) has run right after the six stores and the store has evicted c
C11_Witness ==
    /\ LookupAAfterStores /\ last.err = "none"
    /\ DOMAIN db = {"a", "b", "d"}

\* C12: setting a layer's capacity below its length removes entries from the
\* MRU end until the length equals the new capacity: the oldest entries
\* remain, in their order.
C12_CapacityTrimsMru ==
    [][(/\ IsOp("CacheSetCapacity")
        /\ last'.val < Len(cache[last'.layer])) =>
          cache'[last'.layer] = SubSeq(cache[last'.layer], 1, last'.val)]_vars

\* the names the data operations of the store are recorded under
StoreDataOps ==
    {"BsGetItem", "BsGet", "BsContains", "BsLen", "BsIter", "BsKeys",
     "BsValues", "BsItems", "BsSet", "BsDelete", "BsPop", "BsPopItem",
     "BsClear", "BsUpdate", "BsSetDefault"}

\* C13: every data operation of the store called while the store is closed
\* raises BStoreClosedError and changes nothing: the store stays closed, and
\* its file, its nondirty map, the pending slots and the caches are unchanged.
C13_ClosedStoreRefuses ==
    [][(/\ nops' # nops /\ last'.op \in StoreDataOps
        /\ ~bs_open) =>
          /\ last'.err = "BStoreClosedError"
          /\ ~bs_open'
          /\ db' = db
          /\ nondirty_map' = nondirty_map
          /\ modify_key' = modify_key
          /\ cache' = cache
          /\ bs_capacity' = bs_capacity]_vars

\* a data operation has been refused by a closed store whose file, nondirty
\* map and upper cache are not empty
C13_Witness ==
    /\ last.op \in StoreDataOps /\ last.err = "BStoreClosedError"
    /\ ~bs_open
    /\ db # EmptyMap /\ nondirty_map # EmptyMap /\ cache[1] # <<>>

\* C14: a store is closed when constructed; open() leaves it open and close()
\* leaves it closed; close() on a closed store raises nothing and changes
\* nothing; closed() returns true exactly when the store is closed, and
\* changes nothing.
C14_OpenCloseStates ==
    /\ (has_bstore => ~bs_open)
    /\ [][/\ (last'.op = "BsOpen" => bs_open' /\ last'.err = "none")
          /\ (last'.op = "BsClose" =>
                /\ ~bs_open' /\ last'.err = "none"
                /\ db' = db
                /\ (~bs_open => /\ cache' = cache
                                /\ modify_key' = modify_key
                                /\ nondirty_map' = nondirty_map
                                /\ bs_capacity' = bs_capacity))
          /\ (IsOp("BsClosed") =>
                /\ last'.ret = ~bs_open /\ last'.err = "none"
                /\ bs_open' = bs_open /\ db' = db)]_vars

\* closed() has returned true for a store that was open before (a Lookup has
\* filled its nondirty map)
C14_Witness ==
    /\ last.op = "BsClosed" /\ last.ret = TRUE
    /\ nondirty_map # EmptyMap

\* C15: after open() the store holds at most capacity entries, each of them
\* a pair of the file as the last close() left it, and all of the file's
\* pairs when they were not more than capacity.
C15_OpenKeepsFile ==
    [][last'.op = "BsOpen" =>
          /\ bs_open'
          /\ Cardinality(DOMAIN db') <= bs_capacity'
          /\ DOMAIN db' \subseteq DOMAIN db
          /\ \A k \in DOMAIN db' : db'[k] = db[k]
          /\ (Cardinality(DOMAIN db) <= bs_capacity => db' = db)]_vars

\* open() has run on a file that holds a key written through the store (no
\* file of InitFiles holds b)
C15_Witness ==
    /\ last.op = "BsOpen" /\ bs_open
    /\ "b" \in DOMAIN db

\* C16: entering "with cache:" on a chain that ends in a store opens the
\* store; whenever the block is left, at its end or by an exception raised
\* inside it, the store is closed; entering on a chain without a store raises
\* NoBStoreError, opens nothing and changes nothing; close_bstore on such a
\* chain raises nothing and changes nothing.
C16_WithOpensAndCloses ==
    [][/\ (IsOp("Enter") /\ has_bstore =>
             last'.err = "none" /\ in_with' /\ bs_open')
       /\ (in_with /\ ~in_with' => ~bs_open')
       /\ (IsOp("Enter") /\ ~has_bstore =>
             /\ last'.err = "NoBStoreError"
             /\ ~in_with' /\ ~bs_open'
             /\ cache' = cache /\ db' = db /\ modify_key' = modify_key
             /\ nondirty_map' = nondirty_map)
       /\ (IsOp("CloseBstore") /\ ~has_bstore =>
             /\ last'.err = "none" /\ ~bs_open'
             /\ cache' = cache /\ db' = db /\ modify_key' = modify_key
             /\ nondirty_map' = nondirty_map)]_vars

\* a block has been left by the CacheMiss of a Lookup and the store that the
\* block had opened is closed
C16_Witness ==
    /\ last.op = "Lookup" /\ last.err = "CacheMiss"
    /\ has_bstore /\ ~in_with /\ ~bs_open

\* the chain as the step leaves it
MemNext == [cache |-> cache', capacity |-> capacity', modify_key |-> modify_key',
            has_bstore |-> has_bstore', db |-> db', bs_open |-> bs_open',
            bs_capacity |-> bs_capacity', nondirty_map |-> nondirty_map']

\* the step is SetDefault(key, .) on the top layer
IsSetDefault(key) == IsOp("SetDefault") /\ last'.key = key

\* the step does to the chain what Lookup(key) on the top layer can do
ActsAsLookup(key) ==
    \E o \in GetItem(Mem, 1, key) :
       o.err = last'.err /\ o.ret = last'.ret /\ o.m = MemNext

\* C17 as stated: SetDefault(k, d) acts as Lookup(k) when k is anywhere in
\* the chain; otherwise it stores (k, d) dirty at the MRU end of the top
\* layer and returns d.
C17_Original ==
    [][\A key \in Keys :
          IsSetDefault(key) =>
             IF AnyCacheHas(key) \/ (has_bstore /\ key \in DOMAIN db)
             THEN ActsAsLookup(key)
             ELSE /\ last'.err = "none"
                  /\ last'.ret = last'.val
                  /\ cache'[1] # <<>>
                  /\ Mru(cache'[1]) = Val(TRUE, last'.val, key)]_vars

\* Lookup(key) on the top layer raises CacheMiss in the current state
LookupMisses(key) ==
    /\ ~AnyCacheHas(key)
    /\ ~has_bstore \/ (bs_open /\ key \notin DOMAIN db)

\* the value the chain holds for key: the first cache layer's, else the store's
ChainValue(key) ==
    IF AnyCacheHas(key) THEN EntryOf(cache[FirstLayerWith(key)], key).v
    ELSE db[key]

\* C17 (amended): unless Lookup(k) raises CacheMiss, SetDefault(k, d) does
\* what Lookup(k) does: same exception or same returned value (the chain's
\* value for k, never d), same promotion.  When Lookup(k) raises CacheMiss
\* (k in no cache layer, and the store is absent or open without k) it does
\* what Store(k, d) does: when that succeeds (k, d) is the dirty MRU entry of
\* the top layer and d is returned, and when it raises so does SetDefault.
C17_SetDefault ==
    [][\A key \in Keys :
          IsSetDefault(key) =>
             IF LookupMisses(key)
             THEN /\ \E s \in CacheSetItem(Mem, 1, key, last'.val) :
                        s.err = last'.err /\ s.m = MemNext
                  /\ last'.err = "none" =>
                        /\ last'.ret = last'.val
                        /\ cache'[1] # <<>>
                        /\ Mru(cache'[1]) = Val(TRUE, last'.val, key)
             ELSE /\ ActsAsLookup(key)
                  /\ last'.err # "CacheMiss"
                  /\ last'.err = "none" =>
                        /\ last'.ret = ChainValue(key)
                        /\ cache'[1] # <<>>
                        /\ Mru(cache'[1]).k = key
                        /\ Mru(cache'[1]).v = ChainValue(key)]_vars

\* SetDefault has found its key in the chain with a value other than the
\* default and has returned that value
C17_Witness ==
    /\ last.op = "SetDefault" /\ last.err = "none"
    /\ last.src # 0 /\ last.ret # last.val
    /\ Mru(cache[1]).k = last.key /\ Mru(cache[1]).v = last.ret

\* the step changes no layer but layer i, and nothing of the store
OnlyLayerMayChange(i) ==
    /\ \A j \in Layers \ {i} : cache'[j] = cache[j]
    /\ capacity' = capacity
    /\ modify_key' = modify_key
    /\ db' = db /\ bs_open' = bs_open /\ bs_capacity' = bs_capacity
    /\ nondirty_map' = nondirty_map

\* C18: Delete(key), Pop(key) and Get(key, default) on a cache layer act on
\* that layer only.  Delete and Pop remove the key from the layer (Pop
\* returns its value); Get returns the layer's value, or default, and removes
\* and reorders nothing; Delete and Pop without default of a key the layer
\* does not hold raise KeyError and change nothing, whatever the lower
\* layers hold; no other layer, pending slot, store content or nondirty map
\* changes.
C18_SingleLayerOps ==
    [][(nops' # nops /\ last'.op \in {"CacheDelete", "CachePop",
                                      "CachePopDefault", "CacheGet"}) =>
          LET i   == last'.layer
              key == last'.key
              had == key \in KeysOf(cache[i])
          IN /\ OnlyLayerMayChange(i)
             /\ last'.op = "CacheDelete" =>
                   IF had THEN /\ last'.err = "none"
                               /\ cache'[i] = OdPop(cache[i], key)
                   ELSE last'.err = "KeyError" /\ cache' = cache
             /\ last'.op = "CachePop" =>
                   IF had THEN /\ last'.err = "none"
                               /\ last'.ret = EntryOf(cache[i], key).v
                               /\ cache'[i] = OdPop(cache[i], key)
                   ELSE last'.err = "KeyError" /\ cache' = cache
             /\ last'.op = "CachePopDefault" =>
                   /\ last'.err = "none"
                   /\ IF had THEN /\ last'.ret = EntryOf(cache[i], key).v
                                  /\ cache'[i] = OdPop(cache[i], key)
                      ELSE last'.ret = last'.val /\ cache' = cache
             /\ last'.op = "CacheGet" =>
                   /\ last'.err = "none"
                   /\ cache' = cache
                   /\ last'.ret = IF had THEN EntryOf(cache[i], key).v
                                  ELSE last'.val]_vars

\* Pop of a key that the layer does not hold, but the layer below does, has
\* raised KeyError
C18_Witness ==
    /\ last.op = "CachePop" /\ last.err = "KeyError"
    /\ last.layer = 1
    /\ last.key \in KeysOf(cache[2])

\* C19: Update(other) on a cache layer changes that layer's mapping only: no
\* entry is demoted or written back, and the lower layers, the store, the
\* nondirty map and the pending slots are unchanged.  A key the layer holds
\* keeps its place and takes other's entry; the keys it does not hold are
\* appended at the MRU end in other's order.
C19_UpdateOneLayer ==
    [][IsOp("CacheUpdate") =>
          LET i     == last'.layer
              other == last'.val
              old   == cache[i]
              new   == cache'[i]
          IN /\ OnlyLayerMayChange(i)
             /\ last'.err = "none"
             /\ KeysOf(new) = KeysOf(old) \cup KeysOf(other)
             /\ Len(new) = Cardinality(KeysOf(old) \cup KeysOf(other))
             /\ \A n \in 1..Len(old) :
                   new[n] = IF old[n].k \in KeysOf(other)
                            THEN EntryOf(other, old[n].k) ELSE old[n]
             /\ \A x \in KeysOf(other) \ KeysOf(old) :
                   /\ EntryOf(new, x) = EntryOf(other, x)
                   /\ \A y \in KeysOf(other) \ KeysOf(old) :
                         Pos(other, x) < Pos(other, y)
                            => Pos(new, x) < Pos(new, y)]_vars

\* an Update has left a layer with more entries than its capacity, one of
\* them overwritten in place before a newer key
C19_Witness ==
    /\ last.op = "CacheUpdate" /\ Len(last.val) = 1
    /\ Len(cache[last.layer]) > capacity[last.layer]
    /\ Len(cache[last.layer]) = 2
    /\ cache[last.layer][1] = last.val[1]

\* equality of layers i and j as C20 defines it: entries, capacities and,
\* recursively, the lower layers (two layers at the bottom of the chain have
\* the same lower layer: the store, or none)
RECURSIVE LayersEqual(_, _)
LayersEqual(i, j) ==
    /\ cache[i] = cache[j]
    /\ capacity[i] = capacity[j]
    /\ IF i < NumCaches /\ j < NumCaches THEN LayersEqual(i + 1, j + 1)
       ELSE i = NumCaches /\ j = NumCaches

\* C20: two cache layers compare equal if and only if their ordered entries
\* match in key, value and dirty flag, their capacities match and their
\* lower layers compare equal in the same way (or both have none).
C20_EqualityIsDeep ==
    last.op = "CacheEq" => last.ret = LayersEqual(last.layer, last.val)

\* the caches whose lower layer is x
CachesOver(x) == {i \in DOMAIN lower_mem : lower_mem[i] = x}

\* C21: in every reachable state the pointers of the chain agree: the
\* back-reference of the lower layer of a cache points to that cache, and a
\* layer that is the lower layer of no cache has no back-reference.
C21_TopologyConsistent ==
    /\ \A i \in DOMAIN lower_mem :
          lower_mem[i] # NoMem => upper_mem[lower_mem[i]] = i
    /\ \A x \in DOMAIN upper_mem :
          CachesOver(x) = {} => upper_mem[x] = NoMem

\* C22: in every reachable state the capacity of every cache layer and of the
\* store is at least 1, also after an assignment to capacity.
C22_CapacitiesPositive ==
    /\ \A i \in DOMAIN capacity : capacity[i] >= 1
    /\ has_bstore => bs_capacity >= 1

\* the keys of the pairs are pairwise distinct
DistinctKeys(pairs) ==
    \A p, q \in 1..Len(pairs) : pairs[p][1] = pairs[q][1] => p = q

\* the pairs without the ones whose key comes earlier in the sequence, each
\* with the value the key has at its last occurrence
FirstPlaceLastValue(pairs) ==
    LET firsts == SelectSeq([n \in 1..Len(pairs) |-> <<n, pairs[n]>>],
                            LAMBDA x : \A q \in 1..(x[1] - 1) :
                                          pairs[q][1] # x[2][1])
    IN [n \in 1..Len(firsts) |->
          LET k == firsts[n][2][1]
              p == CHOOSE p \in 1..Len(pairs) :
                     /\ pairs[p][1] = k
                     /\ \A q \in (p + 1)..Len(pairs) : pairs[q][1] # k
          IN <<k, pairs[p][2]>>]

\* the state follows a Cache(capacity, init_values, lower_mem) that succeeded
Constructed == last.op = "Construct" /\ last.err = "none"

\* C23 as stated: the items of a cache constructed from a sequence of pairs
\* are that sequence, and every seeded entry is dirty.
C23_Original ==
    Constructed =>
       /\ CacheItems(cache[last.layer]) = last.val
       /\ \A n \in 1..Len(cache[last.layer]) : cache[last.layer][n].d

\* C23: the items of a cache constructed from a sequence of pairs are that
\* sequence when its keys are pairwise distinct; a key that is listed more
\* than once appears once, at the place of its first pair and with the value
\* of its last pair; every seeded entry is dirty.
C23_InitValuesItems ==
    Constructed =>
       /\ DistinctKeys(last.val) => CacheItems(cache[last.layer]) = last.val
       /\ CacheItems(cache[last.layer]) = FirstPlaceLastValue(last.val)
       /\ \A n \in 1..Len(cache[last.layer]) : cache[last.layer][n].d

C23_Witness ==
    /\ Constructed
    /\ DistinctKeys(last.val) /\ Len(last.val) = 2
    /\ CacheItems(cache[last.layer]) = last.val
    /\ \E i \in DOMAIN cache : ~DistinctKeys(CacheItems(cache[i]) \o << <<"a", 2>> >>)
                               /\ Len(cache[i]) = 2 /\ cache[i][1].v = 2

KeySeq(od) == [n \in 1..Len(od) |-> od[n].k]

\* the last n entries of od
Suffix(od, n) == SubSeq(od, Len(od) - n + 1, Len(od))

Min(a, b) == IF a < b THEN a ELSE b

\* the step is a top-level operation that returned and that inserted key,
\* which the top layer did not hold, into the full top layer
InsertsIntoFull(key) ==
    /\ IsOp("Store") \/ IsOp("Lookup") \/ IsOp("SetDefault")
    /\ last'.key = key /\ last'.err = "none"
    /\ key \notin KeysOf(cache[1])
    /\ Len(cache[1]) >= capacity[1]

\* the entries the while loop of the insertion takes from the top layer
Demoted == SubSeq(cache[1], 1, Len(cache[1]) - capacity[1] + 1)

\* C24 as stated, for the top layer over the second cache: the entries that
\* an insertion into the full layer evicts leave it from the LRU end and
\* enter the lower cache at its MRU end, one after the other, each with its
\* value and its dirty flag; the new key is at the MRU end of the layer and
\* the order of the entries that stay is unchanged.
C24_Original ==
    [][\A key \in Keys : InsertsIntoFull(key) =>
          LET n == Min(Len(Demoted), Len(cache'[2])) IN
          /\ KeySeq(cache'[1]) =
                KeySeq(SubSeq(cache[1], Len(Demoted) + 1, Len(cache[1]))) \o <<key>>
          /\ n >= 1
          /\ Suffix(cache'[2], n) = Suffix(Demoted, n)]_vars

\* entry e of the top layer has entered the lower cache as entry f: same key
\* and value, and the same dirty flag unless the pending slot of the lower
\* cache named the key when that insertion completed (it named it before the
\* step, or the store evicted the key during the step), which leaves the
\* entry dirty and the slot empty
DemotedAs(e, f) ==
    /\ f.k = e.k /\ f.v = e.v
    /\ \/ f.d = e.d
       \/ /\ f.d /\ modify_key'[2] = NoKey
          /\ \/ modify_key[2] = e.k
             \/ has_bstore /\ e.k \in DOMAIN db /\ e.k \notin DOMAIN db'

\* C24 (amended): the entries that an insertion into the full top layer
\* evicts leave it from the LRU end and enter the lower cache at its MRU end,
\* one after the other, each with its value and, unless the pending slot of
\* the lower cache names it, its dirty flag; the new key is at the MRU end of
\* the top layer and the order of the entries that stay is unchanged.  The
\* demotion comes first: an insertion that fails below leaves the new key
\* out of the top layer.
C24_DemotionToLowerCache ==
    [][\A key \in Keys :
        /\ (/\ IsOp("Store") /\ last'.err # "none"
            /\ key \notin KeysOf(cache[1])) => key \notin KeysOf(cache'[1])
        /\ InsertsIntoFull(key) =>
          LET n == Min(Len(Demoted), Len(cache'[2])) IN
          /\ KeySeq(cache'[1]) =
                KeySeq(SubSeq(cache[1], Len(Demoted) + 1, Len(cache[1]))) \o <<key>>
          /\ n >= 1
          /\ \A p \in 1..n :
                DemotedAs(Suffix(Demoted, n)[p], Suffix(cache'[2], n)[p])]_vars

C24_Witness ==
    /\ nops = 1 /\ last.op = "Store" /\ last.key = "c" /\ last.err = "none"
    /\ KeySeq(cache[1]) = <<"b", "c">>
    /\ KeySeq(cache[2]) = <<"a">>
    /\ cache[2][1].d /\ cache[2][1].v = 1

\* the step is a top-level operation that returned
TopOpReturns ==
    /\ IsOp("Store") \/ IsOp("Lookup") \/ IsOp("SetDefault")
    /\ last'.err = "none"

\* the entries that the step evicts from the lowest cache layer: they leave
\* it and are not the key of the operation (which is promoted or replaced)
EvictedFromLowest ==
    {cache[NumCaches][n] : n \in {p \in 1..Len(cache[NumCaches]) :
        /\ cache[NumCaches][p].k # last'.key
        /\ cache[NumCaches][p].k \notin KeysOf(cache'[NumCaches])}}

\* C25: over the open store, a dirty entry that the lowest cache layer evicts
\* is in the store, with its value, when the operation returns; when the only
\* entry that the layers evict in the step is clean, the store is neither
\* written nor made to evict.
C25_EvictionToStore ==
    [][(TopOpReturns /\ has_bstore /\ bs_open) =>
          /\ \A e \in EvictedFromLowest :
                e.d => e.k \in DOMAIN db' /\ db'[e.k] = e.v
          /\ \A e \in EvictedFromLowest :
                (~e.d /\ Len(cache[1]) <= capacity[1]) => db' = db]_vars

\* a chain of cache layers only, every layer within its capacity, no key in
\* two layers
CachesOnlyWithinCapacity ==
    /\ ~has_bstore
    /\ \A i \in Layers : Len(cache[i]) <= capacity[i]
    /\ \A i, j \in Layers : i # j => KeysOf(cache[i]) \cap KeysOf(cache[j]) = {}

AllEntries == UNION {{cache[i][n] : n \in 1..Len(cache[i])} : i \in Layers}

\* the entries that no layer holds after the step, the one of key apart
DiscardedBut(key) ==
    {e \in AllEntries : e.k # key /\ \A i \in Layers : e.k \notin KeysOf(cache'[i])}

\* the step is the top-level Store or Lookup of key
StoreOrLookup(key) == (IsOp("Store") \/ IsOp("Lookup")) /\ last'.key = key

\* C26: in a chain of caches only, each within capacity and with distinct
\* keys, a Store of a key that no layer holds discards an entry exactly when
\* every layer is at capacity, and then the LRU entry of the terminal layer;
\* a Lookup or Store of a key that some layer holds discards nothing; the
\* entries that are not discarded are held by some layer with their values.
C26_DiscardOnlyAtTheBottom ==
    [][\A key \in Keys : (CachesOnlyWithinCapacity /\ StoreOrLookup(key)) =>
          /\ (IsOp("Store") /\ ~AnyCacheHas(key)) =>
                /\ DiscardedBut(key) # {} <=>
                      \A i \in Layers : Len(cache[i]) = capacity[i]
                /\ \A e \in DiscardedBut(key) : e = Head(cache[NumCaches])
          /\ AnyCacheHas(key) => DiscardedBut(key) = {}
          /\ \A e \in AllEntries \ DiscardedBut(key) :
                e.k # key => \E i \in Layers :
                   /\ e.k \in KeysOf(cache'[i])
                   /\ EntryOf(cache'[i], e.k).v = e.v]_vars

\* the step is a popitem of the open store that returned
StorePopItemReturns == IsOp("BsPopItem") /\ last'.err = "none"

\* the step removes the entry of last'.key, with the value returned, from the
\* store and nothing else
RemovesOneEntry ==
    /\ last'.key \in DOMAIN db
    /\ last'.ret = db[last'.key]
    /\ db' = MapDel(db, last'.key)

C28_PopItemNotifiesAbove ==
    [][(StorePopItemReturns /\ (DOMAIN db) \ (DOMAIN nondirty_map) = {}) =>
          /\ RemovesOneEntry
          /\ \A i \in Layers : modify_key'[i] = last'.key]_vars

C28_Witness ==
    /\ last.op = "BsPopItem" /\ last.err = "none" /\ last.key = "a"
    /\ "a" \in DOMAIN nondirty_map /\ db = EmptyMap
    /\ modify_key = [i \in Layers |-> "a"]

\* layer i completes an insertion in the step: the top layer in every
\* top-level operation that returns, a lower layer when an entry enters it
Inserted(i) == nops' # nops /\ CompletesInsertion(last'.op, last'.err, i)

\* the store evicts nothing in the step, so that it notifies no cache
NoStoreEviction == DOMAIN db \subseteq DOMAIN db'

\* C30 as stated: when a cache layer has completed an insertion its pending
\* slot is empty, whether the key of the slot was in the layer or not.
C30_Original ==
    [][\A i \in Layers : Inserted(i) => modify_key'[i] = NoKey]_vars

\* the keys that the store evicts under the notify branch in the step
Notified == IF nops' # nops THEN EvictedNotified ELSE {}

\* the slot of layer i has been consumed for key: the entry is dirty and the
\* slot is empty
MarkConsumed(i, key) ==
    /\ key \in KeysOf(cache'[i]) /\ EntryOf(cache'[i], key).d
    /\ modify_key'[i] = NoKey

\* C30 (amended): when a cache layer has completed an insertion, a key that
\* is still in its pending slot is not in the layer; the insertion marks
\* the entry of the slot's key dirty and empties the slot when the key is in
\* the layer, and leaves the slot as it is when the key is not, be the mark
\* older than the operation or set by the store during it.
C30_MarkKeptUntilFound ==
    [][\A i \in Layers : Inserted(i) =>
          /\ modify_key'[i] # NoKey => modify_key'[i] \notin KeysOf(cache'[i])
          /\ (NoStoreEviction /\ modify_key[i] # NoKey) =>
                IF modify_key[i] \in KeysOf(cache'[i])
                THEN MarkConsumed(i, modify_key[i])
                ELSE modify_key'[i] = modify_key[i]
          /\ (Notified # {} /\ ~IsOp("SetDefault")) =>
                \E k \in Notified :
                   IF k \in KeysOf(cache'[i]) THEN MarkConsumed(i, k)
                   ELSE modify_key'[i] = k]_vars

C30_Witness ==
    /\ last.op = "Store" /\ last.err = "none"
    /\ modify_key[1] = "c" /\ modify_key[NumCaches] = NoKey
    /\ Mru(cache[1]).k = last.key
    /\ "c" \notin KeysOf(cache[1])
    /\ "c" \in KeysOf(cache[NumCaches]) /\ EntryOf(cache[NumCaches], "c").d

\* the keys that the store has evicted under the notify branch and that have
\* not seen an insertion of layer i complete before this step
OwedTo(i) == IF i \in DOMAIN last.owed THEN last.owed[i] ELSE {}

\* C29: a cache layer that holds a key k that the store has evicted under
\* the notify branch holds it dirty once the layer has completed its next
\* insertion; when a top-level Lookup or Store makes the store evict k under
\* the notify branch, every cache entry of k is dirty when the operation
\* returns.
C29_NotifiedEntriesTurnDirty ==
    [][/\ \A i \in Layers : Inserted(i) =>
             \A k \in OwedTo(i) \cup Notified :
                k \in KeysOf(cache'[i]) => EntryOf(cache'[i], k).d
       /\ (TopOpReturns /\ ~IsOp("SetDefault")) =>
             \A k \in Notified : \A i \in Layers :
                k \in KeysOf(cache'[i]) => EntryOf(cache'[i], k).d]_vars

\* the (key, value) pairs that the layers c hold with dirty = false
CleanPairs(c) ==
    UNION {{<<c[i][n].k, c[i][n].v>> : n \in {p \in 1..Len(c[i]) : ~c[i][p].d}} :
              i \in DOMAIN c}

MapPairs(f) == {<<k, f[k]>> : k \in DOMAIN f}

\* the step is a top-level Lookup or Store of key that returned, on a chain
\* that ends in a store
RefreshesFor(key) ==
    /\ IsOp("Lookup") \/ IsOp("Store")
    /\ last'.key = key /\ last'.err = "none"
    /\ has_bstore

\* the pair that the step promotes clean from the store, if any
PromotedClean(key) ==
    IF IsOp("Lookup") /\ last'.src = NumCaches + 1
    THEN {<<key, last'.ret>>} ELSE {}

\* C31: after the refresh of a top-level Lookup or Store the nondirty map of
\* the store holds exactly the pairs that the cache layers hold clean (the
\* probe has taken the entry of the key out of its layer) and at most the
\* pair that the operation promotes clean from the store; it holds no key
\* that the operation inserts dirty.
C31_NondirtyMapIsClean ==
    [][\A key \in Keys : RefreshesFor(key) =>
          LET c == RecursPopUnlessFromBs(Mem, 1, key).m.cache IN
          /\ CleanPairs(c) \subseteq MapPairs(nondirty_map')
          /\ MapPairs(nondirty_map') \subseteq CleanPairs(c) \cup PromotedClean(key)]_vars

\* every cache layer and the store hold no more entries than their capacity
AllWithinCapacity ==
    /\ \A i \in Layers : Len(cache[i]) <= capacity[i]
    /\ has_bstore => Cardinality(DOMAIN db) <= bs_capacity

\* the keys that the step writes to the store and the keys that it evicts
WrittenToStore == {k \in DOMAIN db' : k \notin DOMAIN db \/ db'[k] # db[k]}

EvictedFromStore == (DOMAIN db) \ (DOMAIN db')

\* C32: with every layer within its capacity, one top-level Lookup or Store
\* writes at most one entry to the store and makes it evict at most one, so
\* that at most one key is to be put into the pending slots.
C32_OneWriteOneEviction ==
    [][((IsOp("Lookup") \/ IsOp("Store")) /\ AllWithinCapacity) =>
          /\ Cardinality(WrittenToStore) <= 1
          /\ Cardinality(EvictedFromStore) <= 1
          /\ \A i \in Layers :
                modify_key'[i] # modify_key[i] =>
                   modify_key'[i] \in EvictedFromStore \cup {NoKey}]_vars

C32_Witness ==
    /\ nops = 1 /\ last.op = "Store" /\ last.key = "d" /\ last.err = "none"
    /\ bs_capacity = 2 /\ DOMAIN db = {"a", "b"}
    /\ \A i \in Layers : Len(cache[i]) = 1 /\ capacity[i] = 1

\* C33: in a session of top-level Lookup, Store and SetDefault operations over
\* the open store, the (key, value) pair of every clean cache entry is in the
\* store after every operation.
C33_CleanEntriesBackedInSession ==
    (has_bstore /\ bs_open) =>
       \A pair \in CleanPairs(cache) : pair \in MapPairs(db)

C33_Witness ==
    /\ has_bstore /\ bs_open /\ nops >= 2
    /\ last.op = "Store" /\ last.err = "none"
    /\ \E n \in 1..Len(cache[NumCaches]) :
          /\ ~cache[NumCaches][n].d
          /\ cache[NumCaches][n].k \in DOMAIN db
          /\ db[cache[NumCaches][n].k] = cache[NumCaches][n].v
    /\ \A i \in Layers : Len(cache[i]) = capacity[i]

\* no key is held by two of the layers c
KeysDisjoint(c) ==
    \A i, j \in DOMAIN c : i # j => KeysOf(c[i]) \cap KeysOf(c[j]) = {}

\* the step is a top-level Lookup, Store or SetDefault or a Delete, Pop or
\* PopItem of one layer
MovesEntries ==
    \E op \in {"Lookup", "Store", "SetDefault", "CacheDelete", "CachePop",
               "CachePopDefault", "CachePopItem"} : IsOp(op)

\* C34: when no key is in two cache layers, a top-level Lookup, Store or
\* SetDefault and a Delete, Pop or PopItem of a layer leave no key in two
\* cache layers.
C34_KeysStayInOneLayer ==
    [][(KeysDisjoint(cache) /\ MovesEntries) => KeysDisjoint(cache')]_vars

C34_Witness ==
    /\ nops = 2 /\ last.op = "Lookup" /\ last.err = "none" /\ last.src = NumCaches
    /\ KeysDisjoint(cache)
    /\ KeySeq(cache[1]) = <<"a">> /\ KeySeq(cache[NumCaches]) = <<"c">>

\* the step is a top-level Lookup or Store of key, whatever its outcome
LookupOrStoreOf(key) ==
    (IsOp("Lookup") \/ IsOp("Store")) /\ last'.key = key

\* C35: with every layer within its capacity, a top-level Lookup or Store of
\* a key that some cache layer holds returns, open store or closed, and
\* leaves the contents of the store as they are and sets no pending slot (a
\* slot that was pending may be consumed).
C35_CacheHitLeavesStoreAlone ==
    [][\A key \in Keys :
          (AllWithinCapacity /\ AnyCacheHas(key) /\ LookupOrStoreOf(key)) =>
             /\ last'.err = "none"
             /\ db' = db /\ bs_open' = bs_open /\ bs_capacity' = bs_capacity
             /\ \A i \in Layers : modify_key'[i] \in {modify_key[i], NoKey}]_vars

\* the step lowers the capacity of cache layer i
LowersCapacity(i) ==
    IsOp("CacheSetCapacity") /\ last'.layer = i /\ last'.val < capacity[i]

\* od2 is od1 with some entries left out, the others unchanged and in order
RECURSIVE IsSubSeq(_, _)
IsSubSeq(od2, od1) ==
    IF od2 = <<>> THEN TRUE
    ELSE IF od1 = <<>> THEN FALSE
    ELSE IF Head(od2) = Head(od1) THEN IsSubSeq(Tail(od2), Tail(od1))
    ELSE IsSubSeq(od2, Tail(od1))

\* C36: lowering the capacity of a cache layer changes that layer only.  The
\* layer keeps as many of its entries as the new capacity allows, unchanged
\* and in order; the others are dropped, dirty or not: every other layer, the
\* contents of the store, the pending slots and the nondirty map are as
\* before.
C36_LoweringCapacityOnlyDrops ==
    [][\A i \in Layers : LowersCapacity(i) =>
          /\ capacity' = [capacity EXCEPT ![i] = last'.val]
          /\ IsSubSeq(cache'[i], cache[i])
          /\ Len(cache'[i]) = Min(Len(cache[i]), last'.val)
          /\ \A j \in Layers \ {i} : cache'[j] = cache[j]
          /\ db' = db /\ bs_open' = bs_open /\ bs_capacity' = bs_capacity
          /\ modify_key' = modify_key
          /\ nondirty_map' = nondirty_map]_vars

\* the top layer [a, b] of capacity 2 was lowered to capacity 1: the dirty
\* entry of a is gone from the chain and from the store
C36_Witness ==
    /\ nops = 1 /\ last.op = "CacheSetCapacity" /\ last.layer = 1
    /\ last.val = 1 /\ last.err = "none"
    /\ capacity = <<1, 2>>
    /\ KeySeq(cache[1]) = <<"b">> /\ cache[1][1].d
    /\ ~AnyCacheHas("a")
    /\ "a" \notin DOMAIN db

\* C37: Set(k, v) on an open store that holds k changes the value of k and
\* nothing else: the store has the same keys as before, with their values,
\* no cache layer is notified and no cache layer changes, also when the
\* store holds as many entries as its capacity.
C37_StoreSetOfHeldKey ==
    [][(/\ IsOp("BsSet") /\ bs_open /\ last'.err = "none"
        /\ last'.key \in DOMAIN db) =>
          /\ db' = [db EXCEPT ![last'.key] = last'.val]
          /\ modify_key' = modify_key
          /\ cache' = cache]_vars
====
